---- MODULE Spec2Model ----
(***************************************************************************)
(* Nested (list/struct) reconstruction from parquet repetition/definition  *)
(* levels: crates/polars-parquet/src/arrow/read/deserialize/nested_utils.rs*)
(*                                                                         *)
(* Two specifications over one set of variables:                           *)
(*   Spec         the chunk/page driver: `next` pulling pages and calling  *)
(*                `extend`, which calls `extend_offsets2`;                 *)
(*   SpecOffsets  `extend_offsets2` alone, called once or twice on one     *)
(*                page, for every schema of Schemas.                       *)
(***************************************************************************)
EXTENDS Integers, Sequences, FiniteSets, TLC

\* ------------------------------------------------------------------ bounds
\* level pairs pulled from the page iterator over one run of the driver
MaxPairs == 3
\* pages (data, dictionary, failing) pulled over one run of the driver
MaxPages == 2
\* chunk sizes 1..MaxChunk, and None
MaxChunk == 2
\* initial row budgets 0..MaxRemaining
MaxRemaining == 3
\* level pairs of the page handed to extend_offsets2 in SpecOffsets
MaxPageLen == 3
\* `additional` of one extend_offsets2 call in SpecOffsets
MaxAdditional == 2

\* usize::MAX (chunk_size.unwrap_or(usize::MAX)), at the width of TLC's integers
usize_MAX == 2147483647

Min(a, b) == IF a <= b THEN a ELSE b

\* F applied to the value of v: v is evaluated once, before F is applied
Apply(F(_), v) == CHOOSE r \in {F(x) : x \in {v}} : TRUE

\* Option<usize>
None == [some |-> FALSE, v |-> 0]
Some(x) == [some |-> TRUE, v |-> x]
unwrap_or(o, d) == IF o.some THEN o.v ELSE d

\* ------------------------------------------------------------- InitNested
Primitive(is_nullable) == [kind |-> "Primitive", nullable |-> is_nullable]
List(is_nullable) == [kind |-> "List", nullable |-> is_nullable]
Struct(is_nullable) == [kind |-> "Struct", nullable |-> is_nullable]

\* ---------------------------------------------------------------- trackers
\* One record shape for the five implementations of trait Nested; a variant
\* leaves the fields it does not have at their empty value.
NestedPrimitive(nullable) ==
    [variant |-> "NestedPrimitive", nullable |-> nullable, length |-> 0,
     offsets |-> <<>>, validity |-> <<>>]
NestedOptional ==
    [variant |-> "NestedOptional", nullable |-> TRUE, length |-> 0,
     offsets |-> <<>>, validity |-> <<>>]
NestedValid ==
    [variant |-> "NestedValid", nullable |-> FALSE, length |-> 0,
     offsets |-> <<>>, validity |-> <<>>]
NestedStructValid ==
    [variant |-> "NestedStructValid", nullable |-> FALSE, length |-> 0,
     offsets |-> <<>>, validity |-> <<>>]
NestedStruct ==
    [variant |-> "NestedStruct", nullable |-> TRUE, length |-> 0,
     offsets |-> <<>>, validity |-> <<>>]

is_nullable(n) ==
    CASE n.variant = "NestedPrimitive" -> n.nullable
      [] n.variant = "NestedOptional" -> TRUE
      [] n.variant = "NestedValid" -> FALSE
      [] n.variant = "NestedStructValid" -> FALSE
      [] n.variant = "NestedStruct" -> TRUE

is_repeated(n) == n.variant \in {"NestedOptional", "NestedValid"}

\* faulty variant of is_required: no tracker asks for its items to be filled
is_required_never(n) == FALSE

is_required(n) == n.variant \in {"NestedStructValid", "NestedStruct"}

push(n, value, is_valid) ==
    CASE n.variant = "NestedPrimitive" -> [n EXCEPT !.length = @ + 1]
      [] n.variant = "NestedOptional" ->
            [n EXCEPT !.offsets = Append(@, value), !.validity = Append(@, is_valid)]
      [] n.variant = "NestedValid" -> [n EXCEPT !.offsets = Append(@, value)]
      [] n.variant = "NestedStructValid" -> [n EXCEPT !.length = @ + 1]
      [] n.variant = "NestedStruct" -> [n EXCEPT !.validity = Append(@, is_valid)]

len(n) ==
    CASE n.variant = "NestedPrimitive" -> n.length
      [] n.variant = "NestedOptional" -> Len(n.offsets)
      [] n.variant = "NestedValid" -> Len(n.offsets)
      [] n.variant = "NestedStructValid" -> n.length
      [] n.variant = "NestedStruct" -> Len(n.validity)

num_values(n) ==
    CASE n.variant = "NestedPrimitive" -> n.length
      [] n.variant \in {"NestedOptional", "NestedValid"} ->
            IF n.offsets = <<>> THEN 0 ELSE n.offsets[Len(n.offsets)]
      [] n.variant = "NestedStructValid" -> n.length
      [] n.variant = "NestedStruct" -> Len(n.validity)

\* init_nested: the capacity only sizes allocations
init_nested(init, capacity) ==
    [i \in 1..Len(init) |->
        CASE init[i].kind = "Primitive" -> NestedPrimitive(init[i].nullable)
          [] init[i].kind = "List" ->
                IF init[i].nullable THEN NestedOptional ELSE NestedValid
          [] init[i].kind = "Struct" ->
                IF init[i].nullable THEN NestedStruct ELSE NestedStructValid]

\* faulty variant of state_len: the innermost tracker's length
state_len_innermost(nested) == len(nested[Len(nested)])

\* NestedState::len: the outermost tracker's length
state_len(nested) == len(nested[1])

\* ------------------------------------------------------- extend_offsets2
\* cum_sum[d], cum_rep[d] for d in 0..max_depth (depth d is nested[d + 1])
RECURSIVE cum_sum(_, _)
cum_sum(nested, d) ==
    IF d = 0 THEN 0
    ELSE cum_sum(nested, d - 1)
         + (IF is_nullable(nested[d]) THEN 1 ELSE 0)
         + (IF is_repeated(nested[d]) THEN 1 ELSE 0)

RECURSIVE cum_rep(_, _)
cum_rep(nested, d) ==
    IF d = 0 THEN 0
    ELSE cum_rep(nested, d - 1) + (IF is_repeated(nested[d]) THEN 1 ELSE 0)

\* faulty variant of right_level: the definition level is not looked at
right_level_any_def(nested, depth, rep, def) == rep <= cum_rep(nested, depth)

right_level(nested, depth, rep, def) ==
    rep <= cum_rep(nested, depth) /\ def >= cum_sum(nested, depth)

\* faulty variant of child_length: the tracker's own len instead of its child's
child_length_own(nested, depth) == len(nested[depth + 1])

\* the `length` handed to push: the next deeper tracker's len, 1 at the leaf
child_length(nested, depth) ==
    IF depth + 1 < Len(nested) THEN len(nested[depth + 2]) ELSE 1

level_is_valid(nested, depth, def) ==
    is_nullable(nested[depth + 1]) /\ def > cum_sum(nested, depth)

leaf_is_valid(nested, depth, def) ==
    (def # cum_sum(nested, depth)) \/ ~is_nullable(nested[depth + 1])

\* The leaf decoder (trait NestedDecoder): the page's value state is the number
\* of values it still holds, the accumulator the sequence of pushes made
\* (TRUE a value, FALSE a null). push_valid fails on an exhausted value state.
push_valid_ok(values) == values > 0

\* for depth in 0..max_depth, for one level pair. w = [nested, decoded, values, ok]
RECURSIVE walk_depths(_, _, _, _, _)
walk_depths(w, rep, def, depth, required) ==
    IF depth = Len(w.nested) \/ ~w.ok THEN w
    ELSE
      LET rl == right_level(w.nested, depth, rep, def) IN
      IF required \/ rl THEN
        LET nest == w.nested[depth + 1]
            is_valid == level_is_valid(w.nested, depth, def)
            pushed == [w.nested EXCEPT
                         ![depth + 1] = push(nest, child_length(w.nested, depth), is_valid)]
            req == is_required(nest) /\ ~is_valid
            w2 ==
              IF depth = Len(w.nested) - 1 THEN
                IF rl /\ leaf_is_valid(w.nested, depth, def) THEN
                  IF push_valid_ok(w.values)
                  THEN [w EXCEPT !.nested = pushed, !.values = @ - 1,
                                 !.decoded = Append(@, TRUE)]
                  ELSE [w EXCEPT !.nested = pushed, !.ok = FALSE]
                ELSE [w EXCEPT !.nested = pushed, !.decoded = Append(@, FALSE)]
              ELSE [w EXCEPT !.nested = pushed]
        IN Apply(LAMBDA x : walk_depths(x.w, rep, def, depth + 1, x.req),
                 [w |-> w2, req |-> req])
      ELSE walk_depths(w, rep, def, depth + 1, required)

\* page.iter.peek().unwrap(): panics on an exhausted level source
peek_is_some(levels, pos) == pos < Len(levels)

\* faulty variant of row_budget_reached: the repetition level is not looked at
row_budget_reached_any_rep(rep, rows, additional) == rows = additional

\* `if page.iter.peek().unwrap().0 == 0 { if rows == additional { return Ok(true); } .. }`
row_budget_reached(rep, rows, additional) == rep = 0 /\ rows = additional

\* the loop of extend_offsets2.
\* p = [pos, values, nested, decoded, src]: pos level pairs of `levels` are
\* consumed; src lists the pairs consumed into these trackers (base + index).
\* Result: [ret, p] with ret "true" | "false" | "Err" | "Panic".
RECURSIVE offsets_loop(_, _, _, _, _)
offsets_loop(levels, base, p, additional, rows) ==
    IF ~peek_is_some(levels, p.pos) THEN [ret |-> "Panic", p |-> p]
    ELSE
      LET rep == levels[p.pos + 1].rep
          def == levels[p.pos + 1].def
      IN
      IF row_budget_reached(rep, rows, additional) THEN [ret |-> "true", p |-> p]
      ELSE
        LET rows2 == IF rep = 0 THEN rows + 1 ELSE rows
            consumed(w) ==
              LET p2 == [pos |-> p.pos + 1, values |-> w.values, nested |-> w.nested,
                         decoded |-> w.decoded, src |-> Append(p.src, base + p.pos + 1)]
              IN
              IF ~w.ok THEN [ret |-> "Err", p |-> p2]
              ELSE IF Len(levels) - p2.pos = 0 THEN [ret |-> "false", p |-> p2]
              ELSE Apply(LAMBDA x : offsets_loop(levels, base, x, additional, rows2), p2)
        IN
        Apply(consumed,
              walk_depths([nested |-> p.nested, decoded |-> p.decoded,
                           values |-> p.values, ok |-> TRUE], rep, def, 0, FALSE))

extend_offsets2(levels, base, p, additional) ==
    offsets_loop(levels, base, p, additional, 0)

\* ------------------------------------------------------------------ extend
\* usize subtraction of a release build: wraps instead of going negative
usize_sub(a, b) == IF a >= b THEN a - b ELSE ((a - b) + usize_MAX) + 1

\* faulty variant of additional_rows: the chunk size is not applied
additional_rows_no_chunk(chunk, existing, remaining) == remaining

\* `let additional = (chunk_size - existing).min(*remaining);`
additional_rows(chunk, existing, remaining) ==
    Min(usize_sub(chunk, existing), remaining)

\* a queue entry (NestedState, DecodedState); src is the list of level pairs
\* (numbered over the whole column) that were consumed into it
new_item(init, capacity) ==
    [nested |-> init_nested(init, capacity), decoded |-> <<>>, src |-> <<>>]

\* debug_assert!(items.len() < 2, ...)
extend_assert(its) == Len(its) < 2

\* faulty variant of page_is_empty: the end of the page does not end the loop
page_never_empty(levels, pos) == FALSE

\* `if page.len() == 0 { break; }`
page_is_empty(levels, pos) == Len(levels) - pos = 0

\* faulty variant of budget_break: the row budget is not looked at
budget_break_any(is_fully_read, rem) == is_fully_read

\* `if is_fully_read && *remaining == 0 { break; }`
budget_break(is_fully_read, rem) == is_fully_read /\ rem = 0

\* faulty variant of rows_appended: the rows the entry already had are counted again
rows_appended_total(nested, existing) == state_len(nested)

\* `*remaining -= nested.len() - existing;`: the rows the call added
rows_appended(nested, existing) == state_len(nested) - existing

\* faulty variant of fold_fully_read: the last entry's result is kept
fold_last_read(first, is_fully_read) == is_fully_read

\* `first_item_is_fully_read |= is_fully_read;`
fold_fully_read(first, is_fully_read) == first \/ is_fully_read

\* the loop of extend. e = [items, remaining, pos, values, first, log].
\* Result: [ret, items, remaining, log], ret "true" | "false" | "Err" | "Panic".
\* log records the calls of extend_offsets2 made, in order: the queue position
\* of the entry extended, `additional`, what the call returned, the rows it
\* added to the entry and the level pairs it consumed.
RECURSIVE extend_loop(_, _, _, _, _)
extend_loop(levels, base, init, chunk, e) ==
    IF e.items # <<>> THEN
      LET n == Len(e.items)
          back == e.items[n]
          rest == SubSeq(e.items, 1, n - 1)
          existing == state_len(back.nested)
          additional == additional_rows(chunk, existing, e.remaining)
          extended(r) ==
            LET log == Append(e.log,
                         [entry |-> n, additional |-> additional, ret |-> r.ret,
                          rows |-> state_len(r.p.nested) - existing,
                          pairs |-> r.p.pos - e.pos])
            IN
            IF r.ret \in {"Err", "Panic"}
            THEN \* `?`: the popped entry is dropped with the error
                 [ret |-> r.ret, items |-> rest, remaining |-> e.remaining,
                  log |-> log]
            ELSE
              LET is_fully_read == (r.ret = "true")
                  first == fold_fully_read(e.first, is_fully_read)
                  rem == usize_sub(e.remaining, rows_appended(r.p.nested, existing))
                  its == Append(rest, [nested |-> r.p.nested, decoded |-> r.p.decoded,
                                       src |-> r.p.src])
                  done == [ret |-> IF first THEN "true" ELSE "false",
                           items |-> its, remaining |-> rem, log |-> log]
              IN
              IF page_is_empty(levels, r.p.pos) THEN done
              ELSE IF budget_break(is_fully_read, rem) THEN done
              ELSE Apply(LAMBDA x : extend_loop(levels, base, init, chunk, x),
                       [items |-> Append(its, new_item(init, Min(chunk, rem))),
                        remaining |-> rem, pos |-> r.p.pos, values |-> r.p.values,
                        first |-> first, log |-> log])
      IN
      Apply(extended,
            extend_offsets2(levels, base,
                [pos |-> e.pos, values |-> e.values, nested |-> back.nested,
                 decoded |-> back.decoded, src |-> back.src], additional))
    ELSE Apply(LAMBDA x : extend_loop(levels, base, init, chunk, x),
             [e EXCEPT !.items = Append(@, new_item(init, Min(chunk, e.remaining)))])

\* extend(page, init, items, dict, remaining, decoder, chunk_size).
\* page = [levels, values]: its level pairs and the number of values its value
\* buffer holds. (build_state and NestedPage::try_new failing: NextBuildErr.)
extend(page, base, init, its, rem, chunk_size) ==
    IF ~extend_assert(its)
    THEN [ret |-> "Panic", items |-> its, remaining |-> rem, log |-> <<>>]
    ELSE extend_loop(page.levels, base, init, unwrap_or(chunk_size, usize_MAX),
             [items |-> its, remaining |-> rem, pos |-> 0,
              values |-> page.values, first |-> FALSE, log |-> <<>>])

\* ------------------------------------------------------------ input space
Count(init, P(_)) == Cardinality({i \in 1..Len(init) : P(init[i])})
max_rep_level(init) == Count(init, LAMBDA u : u.kind = "List")
max_def_level(init) ==
    Count(init, LAMBDA u : u.nullable) + Count(init, LAMBDA u : u.kind = "List")

LevelPairs(init) == [rep : 0..max_rep_level(init), def : 0..max_def_level(init)]

SeqsUpTo(S, n) == UNION {[1..k -> S] : k \in 0..n}

\* the schemas extend_offsets2 is explored on
Schemas ==
    { <<List(TRUE), Primitive(TRUE)>>,
      <<Struct(TRUE), Primitive(TRUE)>>,
      <<List(FALSE), Struct(TRUE), Primitive(FALSE)>>,
      <<Struct(FALSE), List(TRUE), Primitive(FALSE)>> }

\* the schemas the driver is explored on
DriverSchemas == { <<List(FALSE), Primitive(FALSE)>> }

\* ------------------------------------------------------------------ state
VARIABLES
    init,        \* &[InitNested]: the column's schema
    chunk_size,  \* Option<usize>
    budget,      \* the initial value of `remaining`
    remaining,   \* *remaining
    items,       \* the VecDeque of pending chunks, front first
    dict,        \* Option<Dictionary>: 0 is None, n the dictionary of the nth page
    iter_done,   \* the page iterator has returned Ok(None)
    npages,      \* pages pulled from the iterator
    pulled,      \* the level pairs of all data pages pulled, in order
    page_base,   \* the number of them that came before the last data page
    pulled_kind, \* what the last call of next got from the iterator
    result,      \* what the last call of next returned
    out,         \* the chunks returned so far, in order
    xlog,        \* the last call of extend: the queue length it was entered
                 \* with and the calls of extend_offsets2 it made
    \* SpecOffsets
    opage,       \* the page handed to extend_offsets2
    ost,         \* its position, value state, trackers and accumulator
    opc,         \* "start" | "first" | "second"
    oadds,       \* the `additional` of the calls made
    oret         \* what the last call returned

dvars == <<init, chunk_size, budget, remaining, items, dict, iter_done, npages,
           pulled, page_base, pulled_kind, result, out, xlog>>
ovars == <<opage, ost, opc, oadds, oret>>
vars == <<dvars, ovars>>

\* extend has not been called by the last call of next
NoExtend == [entered |-> 0, calls |-> <<>>]

OffsetsIdle ==
    /\ opage = [levels |-> <<>>, values |-> 0]
    /\ ost = [pos |-> 0, values |-> 0, nested |-> <<>>, decoded |-> <<>>, src |-> <<>>]
    /\ opc = "idle"
    /\ oadds = <<>>
    /\ oret = "none"

Init ==
    /\ init \in DriverSchemas
    /\ chunk_size \in {None} \cup {Some(c) : c \in 1..MaxChunk}
    /\ budget \in 0..MaxRemaining
    /\ remaining = budget
    /\ items = <<>>
    /\ dict = 0
    /\ iter_done = FALSE
    /\ npages = 0
    /\ pulled = <<>>
    /\ page_base = 0
    /\ pulled_kind = "none"
    /\ result = "none"
    /\ out = <<>>
    /\ xlog = NoExtend
    /\ OffsetsIdle

\* the caller stops calling next after a failure
Running == result \notin {"Err", "Panic"}

\* ------------------------------------------------------------------- next
\* faulty variant of has_buffered: queued entries are never returned first
has_buffered_never(its) == FALSE

\* faulty variant of has_buffered: a page is pulled while 2 entries are queued
has_buffered_late(its) == Len(its) > 2

\* `if items.len() > 1 { return MaybeNext::Some(Ok(items.pop_front().unwrap())); }`
has_buffered(its) == Len(its) > 1

\* faulty variant of pop_front: the front entry is returned and left queued
front_kept(its) == [item |-> Head(its), rest |-> its]

\* faulty variant of pop_front: the newest entry is taken
pop_back(its) == [item |-> its[Len(its)], rest |-> SubSeq(its, 1, Len(its) - 1)]

\* items.pop_front().unwrap()
pop_front(its) == [item |-> Head(its), rest |-> Tail(its)]

NextBuffered ==
    /\ Running
    /\ has_buffered(items)
    /\ result' = "Some"
    /\ out' = Append(out, pop_front(items).item)
    /\ items' = pop_front(items).rest
    /\ pulled_kind' = "buffered"
    /\ xlog' = NoExtend
    /\ UNCHANGED <<init, chunk_size, budget, remaining, dict, iter_done, npages, pulled, page_base>>
    /\ UNCHANGED ovars

\* iter.next() is Err(e)
NextIterErr ==
    /\ Running
    /\ ~has_buffered(items)
    /\ ~iter_done
    /\ npages < MaxPages
    /\ npages' = npages + 1
    /\ result' = "Err"
    /\ pulled_kind' = "err"
    /\ xlog' = NoExtend
    /\ UNCHANGED <<init, chunk_size, budget, remaining, items, dict, iter_done, pulled, page_base, out>>
    /\ UNCHANGED ovars

\* faulty variant of end_result: an empty queue asks for more pages
end_result_more(its) == IF its # <<>> THEN "Some" ELSE "More"

\* iter.next() is Ok(None):
\* `if let Some(decoded) = items.pop_front() { Some(Ok(decoded)) } else { None }`
end_result(its) == IF its # <<>> THEN "Some" ELSE "None"

NextEnd ==
    /\ Running
    /\ ~has_buffered(items)
    /\ iter_done' = TRUE
    /\ pulled_kind' = "end"
    /\ xlog' = NoExtend
    /\ result' = end_result(items)
    /\ IF items # <<>>
       THEN /\ out' = Append(out, pop_front(items).item)
            /\ items' = pop_front(items).rest
       ELSE UNCHANGED <<out, items>>
    /\ UNCHANGED <<init, chunk_size, budget, remaining, dict, npages, pulled, page_base>>
    /\ UNCHANGED ovars

\* faulty variant of dict_result: a dictionary page ends the column
dict_result_none == "None"

\* iter.next() is Ok(Some(Page::Dict(dict_page))):
\* `*dict = Some(decoder.deserialize_dict(dict_page)); return MaybeNext::More;`
deserialize_dict(page_no) == page_no

dict_result == "More"

NextDict ==
    /\ Running
    /\ ~has_buffered(items)
    /\ ~iter_done
    /\ npages < MaxPages
    /\ dict' = deserialize_dict(npages + 1)
    /\ npages' = npages + 1
    /\ result' = dict_result
    /\ pulled_kind' = "dict"
    /\ xlog' = NoExtend
    /\ UNCHANGED <<init, chunk_size, budget, remaining, items, iter_done, pulled, page_base, out>>
    /\ UNCHANGED ovars

\* the data pages the iterator may yield next: the column starts with a pair of
\* repetition level 0
\* and a page holds at most one value per pair of full definition level
FullyDefined(sch, levels) ==
    Cardinality({i \in 1..Len(levels) : levels[i].def = max_def_level(sch)})

DataPages ==
    { pg \in [levels : SeqsUpTo(LevelPairs(init), MaxPairs - Len(pulled)),
              values : 0..MaxPairs] :
        /\ pg.values <= FullyDefined(init, pg.levels)
        /\ (pulled = <<>> /\ pg.levels # <<>>) => pg.levels[1].rep = 0 }

\* iter.next() is Ok(Some(Page::Data(page))) and decoder.build_state(page, dict)
\* or NestedPage::try_new(page) fails: extend returns the error first thing
NextBuildErr ==
    /\ Running
    /\ ~has_buffered(items)
    /\ ~iter_done
    /\ npages < MaxPages
    /\ npages' = npages + 1
    /\ result' = "Err"
    /\ pulled_kind' = "data"
    /\ page_base' = Len(pulled)
    /\ xlog' = [entered |-> Len(items), calls |-> <<>>]
    /\ UNCHANGED <<init, chunk_size, budget, remaining, items, dict, iter_done, pulled, out>>
    /\ UNCHANGED ovars

\* iter.next() is Ok(Some(Page::Data(page)))
NextData ==
    /\ Running
    /\ ~has_buffered(items)
    /\ ~iter_done
    /\ npages < MaxPages
    /\ \E pg \in DataPages :
       \E r \in {extend(pg, Len(pulled), init, items, remaining, chunk_size)} :
         /\ npages' = npages + 1
         /\ pulled' = pulled \o pg.levels
         /\ page_base' = Len(pulled)
         /\ pulled_kind' = "data"
         /\ xlog' = [entered |-> Len(items), calls |-> r.log]
         /\ CASE r.ret = "true" ->
                   /\ result' = "Some"
                   /\ out' = Append(out, pop_front(r.items).item)
                   /\ items' = pop_front(r.items).rest
                   /\ remaining' = r.remaining
              [] r.ret = "false" ->
                   /\ result' = "More"
                   /\ items' = r.items
                   /\ remaining' = r.remaining
                   /\ UNCHANGED out
              [] r.ret = "Err" ->
                   /\ result' = "Err"
                   /\ items' = r.items
                   /\ remaining' = r.remaining
                   /\ UNCHANGED out
              [] r.ret = "Panic" ->
                   /\ result' = "Panic"
                   /\ UNCHANGED <<items, remaining, out>>
    /\ UNCHANGED <<init, chunk_size, budget, dict, iter_done>>
    /\ UNCHANGED ovars

Next == NextBuffered \/ NextIterErr \/ NextEnd \/ NextDict \/ NextBuildErr \/ NextData

Spec == Init /\ [][Next]_vars

\* ------------------------------------------------------------ SpecOffsets
\* extend_offsets2 on fresh trackers and one page, with `additional` = a, and
\* then, on the trackers and page source the first call left, with
\* `additional` = b.

\* the page of the list scenario: [(0,3),(1,3),(0,2),(0,1)]
ScenarioSchema == <<List(TRUE), Primitive(TRUE)>>
ScenarioLevels ==
    <<[rep |-> 0, def |-> 3], [rep |-> 1, def |-> 3],
      [rep |-> 0, def |-> 2], [rep |-> 0, def |-> 1]>>

\* the state extend_offsets2 starts from on a page: nothing consumed, the
\* page's values, fresh trackers, an empty accumulator
fresh_state(sch, page) ==
    [pos |-> 0, values |-> page.values, nested |-> init_nested(sch, 0),
     decoded |-> <<>>, src |-> <<>>]

InitOffsets ==
    /\ init \in Schemas
    /\ \E levels \in SeqsUpTo(LevelPairs(init), MaxPageLen)
                       \cup (IF init = ScenarioSchema THEN {ScenarioLevels} ELSE {}) :
         opage = [levels |-> levels, values |-> FullyDefined(init, levels)]
    /\ ost = fresh_state(init, opage)
    /\ opc = "start"
    /\ oadds = <<>>
    /\ oret = "none"
    /\ chunk_size = None
    /\ budget = 0
    /\ remaining = 0
    /\ items = <<>>
    /\ dict = 0
    /\ iter_done = FALSE
    /\ npages = 0
    /\ pulled = <<>>
    /\ page_base = 0
    /\ pulled_kind = "none"
    /\ result = "none"
    /\ out = <<>>
    /\ xlog = NoExtend

CallOffsets(additional) ==
    \E r \in {extend_offsets2(opage.levels, 0, ost, additional)} :
        /\ oret' = r.ret
        /\ ost' = IF r.ret = "Panic" THEN ost ELSE r.p
        /\ oadds' = Append(oadds, additional)

CallFirst ==
    /\ opc = "start"
    /\ \E a \in 0..MaxAdditional : CallOffsets(a)
    /\ opc' = "first"
    /\ UNCHANGED <<opage>>
    /\ UNCHANGED dvars

CallSecond ==
    /\ opc = "first"
    /\ oret \in {"true", "false"}
    /\ \E b \in 0..MaxAdditional : CallOffsets(b)
    /\ opc' = "second"
    /\ UNCHANGED <<opage>>
    /\ UNCHANGED dvars

NextOffsets == CallFirst \/ CallSecond

SpecOffsets == InitOffsets /\ [][NextOffsets]_vars

\* ------------------------------------------------------------------ claims

\* every chunk there is: those returned, then those queued, oldest first
AllChunks == out \o items

RECURSIVE Flatten(_)
Flatten(cs) == IF cs = <<>> THEN <<>> ELSE Head(cs).src \o Flatten(Tail(cs))

InSeq(x, sq) == \E i \in 1..Len(sq) : sq[i] = x

\* pair g of the column starts a top-level row
IsHead(g) == pulled[g].rep = 0
AllPairs == [g \in 1..Len(pulled) |-> g]
AllHeads == SelectSeq(AllPairs, IsHead)
\* the row pair g belongs to: the number of row starts up to g
RowOf(g) == Cardinality({h \in 1..g : IsHead(h)})
\* the rows of a chunk as its outermost tracker counts them
ChunkRows(c) == state_len(c.nested)
\* the level pairs of the last data page pulled
LastPage == SubSeq(pulled, page_base + 1, Len(pulled))
LastPageHeads == Cardinality({g \in page_base + 1..Len(pulled) : IsHead(g)})
\* the last call of next pulled a data page and extend returned Ok
ExtendReturned == pulled_kind = "data" /\ result \in {"Some", "More"}
\* the queue length extend returned with: next has popped the front since
\* when it returned a chunk
ExtendReturnLen == IF result = "Some" THEN Len(items) + 1 ELSE Len(items)

C2_ChunkSizeBound ==
    \A i \in 1..Len(AllChunks) :
        ChunkRows(AllChunks[i]) <= unwrap_or(chunk_size, usize_MAX)

\* a full chunk was returned and the queue entry left is full too
C2_Witness ==
    /\ chunk_size.some
    /\ \E i \in 1..Len(out) : ChunkRows(out[i]) = chunk_size.v
    /\ items # <<>>
    /\ ChunkRows(items[1]) = chunk_size.v
    /\ pulled_kind = "data"

\* C3 (as stated): the queue holds at most 2 entries at every call boundary of
\* next and of extend.
C3_AtMostTwo ==
    /\ Len(items) <= 2
    /\ ExtendReturned => ExtendReturnLen <= 2

\* C3 (amended): extend is entered with at most 1 entry queued, and returns
\* with at most one entry more than the page has pairs of repetition level 0.
C3_QueueBound ==
    [][(pulled_kind' = "data" /\ npages' = npages + 1) =>
          /\ Len(items) <= 1
          /\ ExtendReturned' => ExtendReturnLen' <= 1 + LastPageHeads']_vars

\* extend returned with 3 entries queued
C3_Witness == ExtendReturned /\ ExtendReturnLen = 3

\* C4: a dictionary page makes next return More and replaces the dictionary;
\* the queue, the row budget and the chunks returned stay as they were.
C4_DictPageFrame ==
    [][(pulled_kind' = "dict" /\ npages' = npages + 1) =>
          /\ result' = "More"
          /\ dict' = deserialize_dict(npages')
          /\ UNCHANGED <<items, remaining, out, pulled, iter_done>>]_vars

\* a dictionary page arrived while an entry was queued
C4_Witness == pulled_kind = "dict" /\ items # <<>> /\ pulled # <<>>

\* C5: with the page iterator exhausted, next returns the front queue entry
\* while there is one and None from then on; never More, and no entry is lost.
C5_DrainThenNone ==
    [][iter_done' =>
          IF items # <<>>
          THEN /\ result' = "Some"
               /\ out' = Append(out, Head(items))
               /\ items' = Tail(items)
          ELSE /\ result' = "None"
               /\ UNCHANGED <<items, out>>]_vars

\* a last chunk smaller than chunk_size was returned, then None
C5_Witness ==
    /\ iter_done
    /\ result = "None"
    /\ out # <<>>
    /\ chunk_size.some
    /\ ChunkRows(out[Len(out)]) < chunk_size.v
    /\ ChunkRows(out[Len(out)]) > 0

\* the list scenario's page has been consumed to its end
ScenarioDone ==
    /\ init = ScenarioSchema
    /\ opage.levels = ScenarioLevels
    /\ oret # "Panic"
    /\ ost.pos = Len(ScenarioLevels)

\* C6 (as stated): schema [List(nullable), Primitive(nullable)] and the page
\* [(0,3),(1,3),(0,2),(0,1)] decode to 2 rows, list offsets [0,2,2], list
\* validity [true,false], leaf validity [true,true].
C6_TwoRows ==
    ScenarioDone =>
        /\ state_len(ost.nested) = 2
        /\ ost.nested[1].offsets = <<0, 2, 2>>
        /\ ost.nested[1].validity = <<TRUE, FALSE>>
        /\ ost.decoded = <<TRUE, TRUE>>

\* C6 (amended): the page decodes to 3 rows, one per pair of repetition level 0:
\* list offsets [0,2,3], list validity [true,true,true], and three leaf pushes
\* valid, valid, null ((0,2) is a list of one null item, (0,1) an empty list
\* that pushes no leaf).
C6_ThreeRows ==
    ScenarioDone =>
        /\ state_len(ost.nested) = 3
        /\ ost.nested[1].offsets = <<0, 2, 3>>
        /\ ost.nested[1].validity = <<TRUE, TRUE, TRUE>>
        /\ len(ost.nested[2]) = 3
        /\ ost.decoded = <<TRUE, TRUE, FALSE>>

C6_Witness == ScenarioDone /\ opc = "second"

\* what one call with `additional` = a + b makes of the fresh trackers
WholeCall ==
    extend_offsets2(opage.levels, 0, fresh_state(init, opage), oadds[1] + oadds[2])

\* C9: extend_offsets2 with additional = a and then with additional = b leaves
\* the trackers, the leaf accumulator and the page source as one call with
\* additional = a + b does, for any page and any split.
C9_SplitEqualsWhole ==
    opc = "second" => (oret # "Panic" /\ ost = WholeCall.p)

\* C9, for the splits whose second call finds the level source non-empty
C9_SplitEqualsWholeNoPanic ==
    (opc = "second" /\ oret # "Panic") => (ost = WholeCall.p /\ oret = WholeCall.ret)

\* exactly one page was pulled, a data page of R >= 1 rows, with chunk size 1
\* and a row budget >= R, and next has been called to the end of input
SinglePageRun ==
    /\ chunk_size = Some(1)
    /\ npages = 1
    /\ pulled # <<>>
    /\ budget >= Len(AllHeads)
    /\ result = "None"

\* C7: with chunk size 1, one data page of R rows and a row budget >= R, next
\* returns R chunks to the end of input, each of 1 row, in the page's order.
C7_OneChunkPerRow ==
    SinglePageRun =>
        /\ Len(out) = Len(AllHeads)
        /\ \A i \in 1..Len(out) :
              /\ ChunkRows(out[i]) = 1
              /\ out[i].src # <<>>
              /\ out[i].src[1] = AllHeads[i]

\* the page had 3 rows
C7_Witness == SinglePageRun /\ Len(AllHeads) = 3 /\ Len(out) = 3

\* extend returned Ok on a page whose last level pair it consumed
PageRanOut ==
    /\ ExtendReturned
    /\ LastPage # <<>>
    /\ InSeq(Len(pulled), Flatten(AllChunks))

\* the last data page starts with pairs of repetition level > 0, and the last
\* pair of the page before it was consumed into a chunk
PageContinuesRow ==
    /\ ExtendReturned
    /\ page_base >= 1
    /\ Len(pulled) > page_base
    /\ ~IsHead(page_base + 1)
    /\ InSeq(page_base, Flatten(AllChunks))

\* the leading pairs of repetition level > 0 of the last data page
IsContinuation(g) ==
    g > page_base /\ \A h \in page_base + 1..g : ~IsHead(h)

\* the pairs that continue the pending entry's last row are in that entry, and
\* an entry's row count is the number of repetition-level-0 pairs it consumed
ContinuationMerged ==
    PageContinuesRow =>
        \A i \in 1..Len(AllChunks) :
            InSeq(page_base, AllChunks[i].src) =>
                /\ \A g \in page_base + 1..Len(pulled) :
                      IsContinuation(g) => InSeq(g, AllChunks[i].src)
                /\ ChunkRows(AllChunks[i]) = Len(SelectSeq(AllChunks[i].src, IsHead))

\* C8 (as stated): when a page's level pairs run out next returns More and the
\* entry being extended stays queued; pairs of repetition level > 0 that start
\* the next data page are appended to that entry, adding no row and no entry.
C8_RanOutIsMore ==
    /\ PageRanOut =>
          /\ result = "More"
          /\ items # <<>>
          /\ InSeq(Len(pulled), items[Len(items)].src)
    /\ ContinuationMerged

\* C8 (amended): when a page's level pairs run out the entry being extended
\* stays queued as the back entry; next returns More when extend returned with
\* that entry alone, and the front entry when entries before it were completed
\* from the same page. Pairs of repetition level > 0 that start the next data
\* page are appended to that entry, adding no row and no entry.
C8_RanOutStaysQueued ==
    /\ PageRanOut =>
          /\ items # <<>>
          /\ InSeq(Len(pulled), items[Len(items)].src)
          /\ (result = "More" <=> ExtendReturnLen = 1)
    /\ ContinuationMerged

\* a page's leading pair of repetition level > 0 was appended to an entry that
\* held chunk_size rows, with the row budget at 0
C8_Witness ==
    /\ PageContinuesRow
    /\ remaining = 0
    /\ chunk_size.some
    /\ \E i \in 1..Len(AllChunks) :
          /\ InSeq(page_base, AllChunks[i].src)
          /\ InSeq(page_base + 1, AllChunks[i].src)
          /\ ChunkRows(AllChunks[i]) = chunk_size.v

\* C10: a level source that is exhausted where a pair is needed (a data page
\* of zero level pairs included) makes next return Some(Err); the call never
\* ends any other way.
C10_ExhaustedSourceIsErr ==
    /\ result # "Panic"
    /\ (pulled_kind = "data" /\ LastPage = <<>>) => result = "Err"

\* the panic of extend_offsets2 comes from a data page of zero level pairs
PanicOnlyOnEmptyPage == result = "Panic" => (pulled_kind = "data" /\ LastPage = <<>>)

\* ------------------------------------------------- claims on extend_offsets2

\* a definition level below what a list of the schema needs to have an item:
\* the pair encodes a null or empty list (or a null ancestor of one)
EncodesNoItem(sch, def) ==
    \E d \in 1..Len(sch) :
        sch[d].kind = "List" /\ def < cum_sum(init_nested(sch, 0), d)

\* the level pairs of the page that extend_offsets2 has consumed
Consumed == 1..ost.pos
ConsumedWithItem == {g \in Consumed : ~EncodesNoItem(init, opage.levels[g].def)}

\* C11 (as stated): every level pair consumed makes exactly one leaf push,
\* pairs that encode a null or empty list included.
C11_OnePushPerPair == Len(ost.decoded) = ost.pos

\* C11 (amended): a level pair consumed makes one leaf push when its definition
\* level reaches every list of the schema, and none when it encodes a null or
\* empty list; the accumulator never holds more pushes than pairs consumed.
C11_OnePushPerItem ==
    /\ Len(ost.decoded) = Cardinality(ConsumedWithItem)
    /\ Len(ost.decoded) <= ost.pos

\* two pairs consumed: one made a leaf push, one encoded an empty or null list
C11_Witness ==
    /\ ost.pos >= 2
    /\ Len(ost.decoded) >= 1
    /\ Len(ost.decoded) < ost.pos

\* where the page source stood when the last call of extend_offsets2 was made
PosBeforeLast ==
    IF opc = "second"
    THEN extend_offsets2(opage.levels, 0, fresh_state(init, opage), oadds[1]).p.pos
    ELSE 0

\* the pairs of repetition level 0 that the last call consumed
RowStartsOfLast ==
    Cardinality({g \in PosBeforeLast + 1..ost.pos : opage.levels[g].rep = 0})

\* when extend_offsets2 returns true it has consumed `additional` pairs of
\* repetition level 0, and the next pair of the page is there, unconsumed, with
\* repetition level 0
TrueStopsAtRowStart ==
    oret = "true" =>
        /\ RowStartsOfLast = oadds[Len(oadds)]
        /\ ost.pos < Len(opage.levels)
        /\ opage.levels[ost.pos + 1].rep = 0

\* C12: extend_offsets2 returns true with the next row's first pair left in the
\* page source, so every entry of the queue, returned or pending, that holds
\* level pairs begins with a pair of repetition level 0.
C12_EntriesStartAtRowStart ==
    \A i \in 1..Len(AllChunks) :
        AllChunks[i].src # <<>> => IsHead(AllChunks[i].src[1])

\* --------------------------------------------------------- claims on extend

\* extend_offsets2 reported the entry at queue position k fully read during the
\* last call of extend
ReportedFullyRead(k) ==
    \E j \in 1..Len(xlog.calls) :
        xlog.calls[j].entry = k /\ xlog.calls[j].ret = "true"

\* C13: extend returns true (next returns the front entry) exactly when
\* extend_offsets2 reported the front entry fully read; what it reports for the
\* entries behind it does not turn the result true.
C13_ReturnsFrontFullyRead ==
    ExtendReturned => (result = "Some" <=> ReportedFullyRead(1))

\* extend returned true on a front entry fully read, after a later entry of
\* the same call was reported not fully read
C13_Witness ==
    /\ ExtendReturned
    /\ result = "Some"
    /\ Len(xlog.calls) >= 2
    /\ xlog.calls[Len(xlog.calls)].ret = "false"
    /\ xlog.calls[Len(xlog.calls)].entry > 1

RECURSIVE TotalRows(_)
TotalRows(cs) == IF cs = <<>> THEN 0 ELSE ChunkRows(Head(cs)) + TotalRows(Tail(cs))

\* a step of next that called extend
ExtendStep == pulled_kind' = "data" /\ npages' = npages + 1

\* the rows the step added to the chunks, returned or queued
RowsAdded == TotalRows(AllChunks') - TotalRows(AllChunks)

\* C14 (as stated): every call of extend takes from `remaining` the rows it
\* appended to queue entries, without underflow, and at every call boundary
\* budget = remaining + rows of the chunks returned + rows of the entries queued.
C14_BudgetAlwaysBalanced ==
    [][/\ ExtendStep => (remaining' <= remaining /\ remaining - remaining' = RowsAdded)
       /\ budget' - TotalRows(AllChunks') = remaining']_vars

\* C14 (amended): the same for every call of extend that returns Ok and every
\* sequence of calls of next without a failure. A call of extend that fails
\* drops the entry it was extending, with the rows that entry already held:
\* `remaining` is not given them back, and from then on
\* budget >= remaining + rows of the chunks returned + rows of the entries queued.
C14_BudgetBalancedOnOk ==
    [][/\ (ExtendStep /\ result' # "Err") =>
              (remaining' <= remaining /\ remaining - remaining' = RowsAdded)
       /\ result' # "Err" => budget' - TotalRows(AllChunks') = remaining'
       /\ result' = "Err" =>
              /\ remaining' <= remaining
              /\ budget' - TotalRows(AllChunks') >= remaining']_vars

\* a call of extend added rows to an entry that already had some and started
\* another entry, with the row budget reached
C14_Witness ==
    /\ ExtendReturned
    /\ Len(xlog.calls) >= 2
    /\ xlog.entered = 1
    /\ xlog.calls[1].rows >= 1
    /\ remaining = 0
    /\ budget >= 2
    /\ \E i \in 1..Len(AllChunks) : ChunkRows(AllChunks[i]) > xlog.calls[1].rows

\* ------------------------------------------- claims on the trackers' counts

\* level pair g of the page pushes the tracker at position k (depth k - 1):
\* what the walk over the depths does with the pair on fresh trackers
PairPushes(g, k) ==
    len(walk_depths([nested |-> init_nested(init, 0), decoded |-> <<>>,
                     values |-> 1, ok |-> TRUE],
                    opage.levels[g].rep, opage.levels[g].def, 0, FALSE).nested[k]) = 1

PushedAt(k) == {g \in Consumed : PairPushes(g, k)}

\* the list trackers that have a tracker below them
ListTrackers == {k \in 1..Len(ost.nested) - 1 : is_repeated(ost.nested[k])}

\* the consumed pair that pushed tracker k's most recent element
LastPush(k) == CHOOSE g \in PushedAt(k) : \A h \in PushedAt(k) : h <= g

\* C15: after every level pair a list tracker's num_values() is the length of
\* the tracker one depth down, the children of the list's most recent element
\* included.
C15_NumValuesIsChildCount ==
    \A k \in ListTrackers : num_values(ost.nested[k]) = len(ost.nested[k + 1])

\* what num_values() is: the length the tracker one depth down had when the
\* list's most recent element was pushed, so the children of the elements
\* before it, those of the most recent element excluded (0 without elements)
NumValuesIsStartOffset ==
    \A k \in ListTrackers :
        /\ PushedAt(k) = {} => num_values(ost.nested[k]) = 0
        /\ PushedAt(k) # {} =>
              /\ num_values(ost.nested[k])
                    = Cardinality({g \in PushedAt(k + 1) : g < LastPush(k)})
              /\ len(ost.nested[k + 1]) - num_values(ost.nested[k])
                    = Cardinality({g \in PushedAt(k + 1) : g >= LastPush(k)})

\* ---------------------------------------------- claims on the chunks' rows

\* the offsets of every list tracker of a chunk never go down
OffsetsNonDecreasing(c) ==
    \A k \in 1..Len(c.nested) :
        \A i, j \in 1..Len(c.nested[k].offsets) :
            i <= j => c.nested[k].offsets[i] <= c.nested[k].offsets[j]

\* the pairs of repetition level 0 among the pairs consumed into the chunks cs
RowStartsIn(cs) == Len(SelectSeq(Flatten(cs), IsHead))

\* C16: in every chunk, returned or queued, the offsets of a list tracker are
\* non-decreasing; no tracker of a chunk gets shorter; and the outermost
\* tracker lengths of the chunks returned add up to the number of pairs of
\* repetition level 0 consumed into them, which at the end of input are all the
\* pairs of repetition level 0 consumed into any chunk.
C16_OffsetsAndRowsAddUp ==
    [][/\ \A i \in 1..Len(AllChunks') : OffsetsNonDecreasing(AllChunks'[i])
       /\ \A i \in 1..Min(Len(AllChunks), Len(AllChunks')) :
             \A k \in 1..Len(AllChunks[i].nested) :
                 len(AllChunks'[i].nested[k]) >= len(AllChunks[i].nested[k])
       /\ TotalRows(out') = RowStartsIn(out)'
       /\ result' = "None" => TotalRows(out') = RowStartsIn(AllChunks)']_vars

\* all chunks were returned, one of them with two rows of which the second
\* starts at an offset > 0, from two data pages
C16_Witness ==
    /\ result = "None"
    /\ Len(out) >= 2
    /\ page_base >= 1
    /\ \E i \in 1..Len(out) :
          /\ Len(out[i].nested[1].offsets) >= 2
          /\ out[i].nested[1].offsets[2] > out[i].nested[1].offsets[1]

\* ------------------------------------------------------ claims on next

\* C17: a call of next that finds more than one entry queued finds the front
\* entry with exactly chunk_size rows and returns it; the page iterator, the
\* row budget, the dictionary and the entries behind the front stay as they were.
C17_BufferedFrontIsComplete ==
    [][Len(items) > 1 =>
          /\ chunk_size.some
          /\ ChunkRows(Head(items)) = chunk_size.v
          /\ result' = "Some"
          /\ out' = Append(out, Head(items))
          /\ items' = Tail(items)
          /\ UNCHANGED <<remaining, dict, npages, pulled, iter_done>>]_vars

\* next returned the front of two queued entries, a chunk of chunk_size rows,
\* with a dictionary set, and left the other entry queued
C17_Witness ==
    /\ pulled_kind = "buffered"
    /\ result = "Some"
    /\ Len(items) = 1
    /\ dict # 0
    /\ ChunkRows(out[Len(out)]) = chunk_size.v

\* C18: whatever calls of next came before, extend is entered with fewer than 2
\* entries queued: its assertion `items.len() < 2` holds at every call.
C18_ExtendAssertHolds == pulled_kind = "data" => xlog.entered < 2

\* extend was entered with one entry queued and returned with three
C18_Witness ==
    /\ ExtendReturned
    /\ xlog.entered = 1
    /\ ExtendReturnLen = 3
    /\ page_base >= 1

\* the struct trackers (a struct tracker always has a tracker below it)
StructTrackers ==
    {k \in 1..Len(ost.nested) - 1 :
        ost.nested[k].variant \in {"NestedStruct", "NestedStructValid"}}

\* C19: after every level pair a struct tracker and the tracker one depth down
\* have the same length, the struct being valid, null or not nullable; and the
\* leaf tracker's length is the number of pushes, valid and null, made on the
\* leaf accumulator.
C19_StructAndChildInStep ==
    /\ \A k \in StructTrackers : len(ost.nested[k]) = len(ost.nested[k + 1])
    /\ ost.nested # <<>> => len(ost.nested[Len(ost.nested)]) = Len(ost.decoded)

\* a nullable struct tracker that holds a valid and a null struct, the null one
\* with a null pushed for its leaf
C19_Witness ==
    \E k \in StructTrackers :
        /\ ost.nested[k].variant = "NestedStruct"
        /\ InSeq(TRUE, ost.nested[k].validity)
        /\ InSeq(FALSE, ost.nested[k].validity)
        /\ InSeq(FALSE, ost.decoded)
        /\ InSeq(TRUE, ost.decoded)

\* ------------------------------------------- claims on extend's termination

\* the last call of next ran extend's loop on a page of at least one level pair
\* that starts a row or continues the entry that was pending
ExtendOnPage ==
    /\ pulled_kind = "data"
    /\ LastPage # <<>>
    /\ (IsHead(page_base + 1) \/ xlog.entered >= 1)

\* the entries the last call of extend started
EntriesPushed ==
    Cardinality({xlog.calls[j].entry : j \in 1..Len(xlog.calls)}) - xlog.entered

\* the iterations of extend's loop that did not leave it: all but the last
Continued == 1..Len(xlog.calls) - 1

\* the level pairs the last call of extend consumed
RECURSIVE PairsConsumed(_)
PairsConsumed(calls) ==
    IF calls = <<>> THEN 0 ELSE Head(calls).pairs + PairsConsumed(Tail(calls))

\* extend ends: it starts no more entries than the page has rows, and so makes
\* at most that many iterations plus one for a pending entry
ExtendBounded ==
    /\ result # "Panic"
    /\ EntriesPushed <= LastPageHeads
    /\ Len(xlog.calls) <= xlog.entered + LastPageHeads
    /\ PairsConsumed(xlog.calls) <= Len(LastPage)

\* C20 (as stated): on such a page, with chunk size >= 1, extend ends; every
\* iteration of its loop that extends an entry consumes a level pair or leaves
\* the loop; it starts no more entries than the page has rows.
C20_EveryIterationConsumes ==
    ExtendOnPage =>
        /\ ExtendBounded
        /\ \A j \in Continued : xlog.calls[j].pairs >= 1

\* C20 (amended): on such a page, with chunk size >= 1, extend ends and starts
\* no more entries than the page has rows. Every iteration that extends an
\* entry consumes a level pair or leaves the loop, but for the first one when
\* the pending entry already holds chunk_size rows and the page starts a row:
\* extend_offsets2 returns true with nothing consumed, and the loop goes on to
\* start an entry whose iteration consumes a pair.
C20_ExtendTerminates ==
    ExtendOnPage =>
        /\ ExtendBounded
        /\ \A j \in Continued :
              \/ xlog.calls[j].pairs >= 1
              \/ /\ j = 1
                 /\ xlog.entered = 1
                 /\ xlog.calls[j].additional = 0
                 /\ xlog.calls[j].ret = "true"
                 /\ xlog.calls[j + 1].pairs >= 1

\* the first iteration found the pending entry full and consumed nothing; the
\* loop went on and the entry it started consumed the page
C20_Witness ==
    /\ ExtendOnPage
    /\ Len(xlog.calls) >= 2
    /\ xlog.calls[1].pairs = 0
    /\ PairsConsumed(xlog.calls) = Len(LastPage)

====
